---- MODULE Spec2Model ----
(***************************************************************************)
(* Model of the dashboard's API client (class ApiService): the live        *)
(* request path with its deadline, error classification and retry loop,    *)
(* the mock router that replaces it in mock mode, and the token store      *)
(* with its notifications.                                                 *)
(*                                                                         *)
(* One step of the model is one turn of the browser's event loop: a        *)
(* public method's synchronous prefix, or the callback of one timer or     *)
(* network event together with every promise continuation it wakes.        *)
(***************************************************************************)
EXTENDS Integers, Sequences, FiniteSets, TLC

(* ---------------------------- bounds --------------------------------- *)

\* number of logical calls made on the client
MaxCalls == 2

\* number of live attempts (fetch calls) made on the client while several
\* calls interleave
MaxRequests == 2

\* number of live attempts made while retrying calls interleave
MaxAttempts == 3

\* number of ticks a scheduler starts, and of UTC days its clock runs through
MaxTicks == 2
MaxDays == 2

\* number of loads a dashboard starts, and of fetchData calls on its model
MaxLoads == 3
MaxFetches == 3

\* largest options.retryCount handed to retryRequest when its delay
\* computation is examined on its own
MaxRetryArg == 60

(* ----------------------- program constants --------------------------- *)

\* request(): options.retryCount < 3
MaxRetries == 3
\* retryRequest(): Math.min(1000 * Math.pow(2, retryCount), 30000)
BaseDelay == 1000
MaxDelay == 30000
\* Math.pow(2, n) is a double and never wraps; from this exponent on the
\* model keeps the power at 2^SatExp, far above MaxDelay / BaseDelay
SatExp == 20

(* ------------------------- JavaScript values ------------------------- *)

\* the values null and undefined, which are not strings
Null == "@null"
Undefined == "@undefined"

\* !!v
Truthy(v) == v \notin {Null, Undefined, ""}

\* String(v), the conversion localStorage.setItem applies to its value
StringOf(v) ==
    IF v = Null THEN "null" ELSE IF v = Undefined THEN "undefined" ELSE v

Calls == 1..MaxCalls

\* tokens a caller or the server may supply
Tokens == {"tokA", "tokB"}
\* `mock_${Date.now()}` for the clock readings of a run
MockTokens == {"mock_1", "mock_2"}

(* ------------------------------ errors ------------------------------- *)

\* An Error object.  message is the set of the substrings the code tests
\* for that occur in the message text; cause is not a field of the object:
\* it records which transport event threw it.
Err(name, message, type, status, requestId, cause, originalError) ==
    [name |-> name, message |-> message, type |-> type, status |-> status,
     requestId |-> requestId, cause |-> cause, originalError |-> originalError]

NoError == Err("none", {}, Undefined, 0, 0, "none", <<>>)

\* abortController.abort() rejects fetch with a DOMException named
\* AbortError ("The user aborted a request.", "The operation was aborted.")
AbortError == Err("AbortError", {}, Undefined, 0, 0, "deadline", <<>>)

\* fetch rejects with a TypeError when no response arrives.  The text is
\* the browser's: "Failed to fetch", "NetworkError when attempting to fetch
\* resource.", "Load failed".
ConnectionErrors ==
    { Err("TypeError", m, Undefined, 0, 0, "connection", <<>>) :
        m \in {{"Failed to fetch"}, {"Network"}, {}} }

\* response.json() rejects with a SyntaxError; engines quote the offending
\* text: Unexpected token 'N', "Network ma"... is not valid JSON
DecodeErrors ==
    { Err("SyntaxError", m, Undefined, 0, 0, "decode", <<>>) :
        m \in {{"JSON"}, {"JSON", "Network"}} }

\* any other rejection of fetch (a header value it refuses, ...)
OtherErrors == { Err("TypeError", {}, Undefined, 0, 0, "other", <<>>) }

\* non-2xx statuses a response may carry; 418 stands for the default branch
Statuses == {401, 403, 404, 429, 500, 502, 503, 504, 418}

\* message of an HTTP error: errorData.message or response.statusText
HttpMessages == {{}, {"Network"}}

ErrorKinds ==
    {"AUTH_ERROR", "FORBIDDEN", "NOT_FOUND", "RATE_LIMIT", "SERVER_ERROR",
     "NETWORK_ERROR", "TIMEOUT", "PARSE_ERROR", "HTTP_ERROR", "UNKNOWN_ERROR"}

(* ---------------------------- endpoints ------------------------------ *)

Endpoints ==
    {"/health", "/opportunities", "/user/preferences", "/email/send",
     "/auth/login", "/auth/logout", "/auth/refresh", "/unmatched"}

(* ------------------------ page and storage --------------------------- *)

\* window.location: urlParams.get('mock') and location.protocol
Location(mock, protocol) == [mock |-> mock, protocol |-> protocol]
Locations == { Location(m, p) : m \in {Null, "1"}, p \in {"https:", "file:"} }

\* Config.API.baseURL, or what a page passes to new ApiService(baseURL)
ConfigBaseURL == "https://api.companya.com/v1"
BaseURLs == {ConfigBaseURL, "mock", ""}

\* the entries of localStorage the client reads
StorageKeys == {"crm_auth_token", "crm_mock_mode", "crm_user_preferences"}

\* localStorage.setItem(key, value) / removeItem(key) / getItem(key)
setItem(ls, key, value) == [ls EXCEPT ![key] = StringOf(value)]
removeItem(ls, key) == [ls EXCEPT ![key] = Null]
getItem(ls, key) == ls[key]

\* shouldUseMockMode(baseURL), reading window.location and localStorage
shouldUseMockMode(url, loc, ls) ==
    \/ loc.mock = "1"
    \/ getItem(ls, "crm_mock_mode") = "true"
    \/ ~Truthy(url) \/ url = "mock"
    \/ loc.protocol = "file:"

(* ------------------------------ state -------------------------------- *)

VARIABLES
    scheduler,       \* the SchedulerService, its stored jobs and its ticks
    dashboard,       \* a dashboard's controller and model
    location,        \* window.location: the mock query parameter, the protocol
    baseURL,         \* this.baseURL
    mockMode,        \* this.mockMode
    token,           \* this.token
    localStorage,    \* the entries of window.localStorage the client uses
    requestCounter,  \* this.requestCounter
    calls,           \* the logical calls made on the client
    last,            \* the step just taken and the events it dispatched
    probe            \* retryRequest's delay computation taken alone

vars == <<scheduler, dashboard, location, baseURL, mockMode, token, localStorage, requestCounter, calls, last, probe>>

\* A preference value: undefined, null, or an object with a theme and a page
\* size.  Numbers are written as their digits; a field is Null where JSON
\* has null.
JSValue(kind, theme, pageSize) ==
    [kind |-> kind, theme |-> theme, pageSize |-> pageSize]
NoValue == JSValue("none", Undefined, Undefined)
JSUndefined == JSValue("undefined", Undefined, Undefined)
JSNull == JSValue("null", Undefined, Undefined)
Object(theme, pageSize) == JSValue("object", theme, pageSize)

\* what a caller may pass to updateUserPreferences
PreferenceValues ==
    {JSUndefined, JSNull}
        \cup { Object(t, n) : t \in {"light", "dark"}, n \in {"25", "NaN"} }

\* what JSON.parse may return for a text written by the client
JSONValues ==
    {JSNull} \cup { Object(t, n) : t \in {"light", "dark"}, n \in {"25", Null} }

\* JSON.stringify(v): undefined has no text, NaN is written as null
JSONstringify(v) ==
    CASE v.kind = "undefined" -> Undefined
      [] v.kind = "null" -> "null"
      [] OTHER ->
           "{theme:" \o v.theme \o ",pageSize:"
               \o (IF v.pageSize \in {"NaN", Null} THEN "null" ELSE v.pageSize)
               \o "}"

\* JSON.parse(text): the value the text denotes, or a SyntaxError
JSONparse(text) ==
    LET denoted == { v \in JSONValues : JSONstringify(v) = text } IN
    IF denoted = {} THEN [threw |-> TRUE, value |-> NoValue]
    ELSE [threw |-> FALSE, value |-> CHOOSE v \in denoted : TRUE]

\* a value returned to a caller: the payload's shape, its token field and,
\* for preferences, the value
Result(data, tok) == [data |-> data, token |-> tok, value |-> NoValue]
NoResult == Result("none", Undefined)

\* the headers request() builds for one attempt
Headers(authorization, company, requestId) ==
    [Authorization |-> authorization, XCompanyID |-> company,
     XRequestID |-> requestId]
NoHeaders == Headers(Undefined, Undefined, 0)

\* A logical call.  ids lists the correlation ids of its attempts, open the
\* ids of the attempts whose outcome request() has not yet handled, timers
\* the ids of the attempts whose deadline timer (setTimeout of abort) is
\* pending.  A timer left pending by a finished attempt fires into an
\* AbortController whose fetch has settled, which changes nothing.
IdleCall ==
    [pc |-> "idle", caller |-> "none", endpoint |-> "none", retryCount |-> 0,
     requestId |-> 0, attempts |-> 0, delays |-> <<>>, status |-> 0,
     error |-> NoError, result |-> NoResult, ids |-> <<>>, open |-> {},
     timers |-> {}]

\* window.dispatchEvent(new CustomEvent(type, {detail: {hasToken}}))
Event(type, hasToken) == [type |-> type, hasToken |-> hasToken]

\* a call whose promise has settled: its frames are gone
DoneCall == [IdleCall EXCEPT !.pc = "done"]

\* The step just taken: the operation, its token argument, the HTTP status
\* it classified, the events it dispatched in order, the call it settled as
\* the caller receives it (pc resolved or rejected), and the headers of the
\* attempt it handed to fetch.
Step(op, arg, status, events, settled) ==
    [op |-> op, arg |-> arg, status |-> status, events |-> events,
     settled |-> settled, headers |-> NoHeaders]

\* the token store as the methods below transform it
Store(tok, ls, events) == [token |-> tok, localStorage |-> ls, events |-> events]


(* --------------------------- token store ----------------------------- *)

\* setToken that persists the token and leaves this.token as it was
setTokenStorageOnly(st, t) ==
    Store(st.token, setItem(st.localStorage, "crm_auth_token", t),
          Append(st.events, Event("auth-token-changed", Truthy(t))))

setToken(st, t) ==
    Store(t, setItem(st.localStorage, "crm_auth_token", t),
          Append(st.events, Event("auth-token-changed", Truthy(t))))

\* clearToken that forgets the token and leaves the storage entry
clearTokenMemoryOnly(st) ==
    Store(Null, st.localStorage,
          Append(st.events, Event("auth-token-changed", FALSE)))

clearToken(st) ==
    Store(Null, removeItem(st.localStorage, "crm_auth_token"),
          Append(st.events, Event("auth-token-changed", FALSE)))

triggerAuthRequired(st) ==
    [st EXCEPT !.events = Append(@, Event("auth-required", FALSE))]

\* handleAuthError that raises the notification and keeps the token
handleAuthErrorKeepsToken(st) == triggerAuthRequired(st)

handleAuthError(st) == triggerAuthRequired(clearToken(st))

isAuthenticated == Truthy(token)

(* ------------------- classification and retry policy ----------------- *)

\* the switch of handleHTTPError
errorType(status) ==
    CASE status = 401 -> "AUTH_ERROR"
      [] status = 403 -> "FORBIDDEN"
      [] status = 404 -> "NOT_FOUND"
      [] status = 429 -> "RATE_LIMIT"
      [] status = 500 -> "SERVER_ERROR"
      [] status \in {502, 503, 504} -> "NETWORK_ERROR"
      [] OTHER -> "HTTP_ERROR"

\* the error handleHTTPError returns, and the store after its side effect
handleHTTPError(status, message, requestId, st) ==
    [error |-> Err("Error", message, errorType(status), status, requestId,
                   "none", <<>>),
     store |-> IF status = 401 THEN handleAuthError(st) ELSE st]

retryableErrors == {"NETWORK_ERROR", "TIMEOUT", "SERVER_ERROR", "RATE_LIMIT"}

shouldRetry(error) ==
    \/ error.type \in retryableErrors
    \/ "Network" \in error.message
    \/ "Failed to fetch" \in error.message

determineErrorType(error) ==
    IF error.name = "AbortError" THEN "TIMEOUT"
    ELSE IF "Network" \in error.message \/ "Failed to fetch" \in error.message
         THEN "NETWORK_ERROR"
    ELSE IF "JSON" \in error.message THEN "PARSE_ERROR"
    ELSE "UNKNOWN_ERROR"

\* normalizeError that hands every error back as it came
normalizeErrorRethrows(error, requestId) == error

normalizeError(error, requestId) ==
    IF error.type # Undefined /\ error.requestId # 0
    THEN error
    ELSE Err("Error", error.message, determineErrorType(error), 0, requestId,
             "none", <<error>>)

\* Math.pow(2, n)
Pow2(n) == IF n >= SatExp THEN 2^SatExp ELSE 2^n

Min(a, b) == IF a <= b THEN a ELSE b

\* the backoff computed from the number of retries already made
delayFromZero(retryCount) == Min(BaseDelay * Pow2(retryCount - 1), MaxDelay)

\* const delay = Math.min(1000 * Math.pow(2, retryCount), 30000)
delay(retryCount) == Min(BaseDelay * Pow2(retryCount), MaxDelay)

\* retryRequest that goes on without a backoff delay
retryRequestNoDelay(call, originalError) ==
    [call EXCEPT !.pc = "backoff", !.retryCount = @ + 1,
                 !.error = originalError, !.status = 0,
                 !.open = @ \ {call.requestId}]

\* retryRequest up to its await: the call now waits for the backoff timer
retryRequest(call, originalError) ==
    LET retryCount == call.retryCount + 1 IN
    [call EXCEPT !.pc = "backoff", !.retryCount = retryCount,
                 !.delays = Append(@, delay(retryCount)),
                 !.error = originalError, !.status = 0,
                 !.open = @ \ {call.requestId}]

(* ---------------- continuations of login/logout/refresh -------------- *)

\* the promise the wrapper awaits is fulfilled with result
Fulfil(call, result, st) ==
    CASE call.caller \in {"login", "refreshToken"} ->
           [call |-> [call EXCEPT !.pc = "resolved", !.result = result,
                                  !.error = NoError, !.status = 0,
                                  !.open = @ \ {call.requestId}],
            store |-> IF Truthy(result.token) THEN setToken(st, result.token)
                      ELSE st]
      [] call.caller = "logout" ->
           [call |-> [call EXCEPT !.pc = "resolved", !.result = NoResult,
                                  !.error = NoError, !.status = 0,
                                  !.open = @ \ {call.requestId}],
            store |-> clearToken(st)]
      [] OTHER ->
           [call |-> [call EXCEPT !.pc = "resolved", !.result = result,
                                  !.error = NoError, !.status = 0,
                                  !.open = @ \ {call.requestId}],
            store |-> st]

\* the services that hold the client: EmailService.sendDashboardReport and
\* PdfService.generateDashboardPDF
Collaborators == {"sendDashboardReport", "generateDashboardPDF"}

\* throw new Error('Failed to send email report') and
\* throw new Error('Failed to generate PDF report')
ServiceError == Err("Error", {}, Undefined, 0, 0, "none", <<>>)

\* logout without its try/catch: the rejection of post reaches the caller,
\* finally has cleared the token
RejectLogoutRethrows(call, error, st) ==
    [call |-> [call EXCEPT !.pc = "rejected", !.error = error, !.status = 0,
                           !.open = @ \ {call.requestId}],
     store |-> IF call.caller = "logout" THEN clearToken(st) ELSE st]

\* the promise the wrapper awaits is rejected with error
Reject(call, error, st) ==
    IF call.caller = "logout"
    THEN [call |-> [call EXCEPT !.pc = "resolved", !.result = NoResult,
                                !.error = NoError, !.status = 0,
                                !.open = @ \ {call.requestId}],
          store |-> clearToken(st)]
    ELSE IF call.caller \in Collaborators
    THEN [call |-> [call EXCEPT !.pc = "rejected", !.error = ServiceError,
                                !.status = 0,
                                !.open = @ \ {call.requestId}],
          store |-> st]
    ELSE [call |-> [call EXCEPT !.pc = "rejected", !.error = error,
                                !.status = 0,
                                !.open = @ \ {call.requestId}],
          store |-> st]

\* the catch block with the ceiling tested as retryCount <= 3
CatchOneMore(call, error, st) ==
    IF shouldRetry(error) /\ (call.retryCount = 0 \/ call.retryCount <= MaxRetries)
    THEN [call |-> retryRequest(call, error), store |-> st]
    ELSE Reject(call, normalizeError(error, call.requestId), st)

\* the catch block normalizing with the correlation id of the first attempt
CatchFirstId(call, error, st) ==
    IF shouldRetry(error) /\ (call.retryCount = 0 \/ call.retryCount < MaxRetries)
    THEN [call |-> retryRequest(call, error), store |-> st]
    ELSE Reject(call, normalizeError(error, call.ids[1]), st)

\* the catch block of request()
Catch(call, error, st) ==
    IF shouldRetry(error) /\ (call.retryCount = 0 \/ call.retryCount < MaxRetries)
    THEN [call |-> retryRequest(call, error), store |-> st]
    ELSE Reject(call, normalizeError(error, call.requestId), st)


(* ---------------------------- the scheduler --------------------------- *)

\* `job_${Date.now()}` for the two jobs of a run: the n-th job added is
\* job n, as the clock reading of each addJob call is a later one
JobIds == {1, 2}

\* addJob's default hourUTC; the clock of a run reads this hour or the next
DueHour == 6
Hours == {DueHour, DueHour + 1}

\* A job as JSON carries it.  Days are counted from 1 and stand for the
\* date strings toISOString().slice(0, 10); lastRun 0 stands for null.
Job(id, hourUTC, lastRun) == [id |-> id, hourUTC |-> hourUTC, lastRun |-> lastRun]

\* A tick awaiting sendEmail for jobs[i]: its copy of the job list, the date
\* and hour it read at its start, and the jobs whose send it saw fail.
Tick(jobs, i, today, utcHour, failed) ==
    [jobs |-> jobs, i |-> i, today |-> today, utcHour |-> utcHour,
     failed |-> failed]

NoTick == Tick(<<>>, 0, 0, 0, {})

\* new SchedulerService(apiService) in a browser holding no jobs.  stored is
\* the entry crm_scheduled_reports_v1, which JSON carries unchanged.  sent
\* and succeeded hold the job and day of the sends started and resolved,
\* expected the jobs added and not removed.  op, resent and finished tell
\* of the last step: the operation, the sends it started for a job and day
\* that had one started before, and the tick it ended.
NoScheduler ==
    [stored |-> <<>>, timer |-> FALSE, ticks |-> <<>>, started |-> 0,
     added |-> 0, day |-> 1, hour |-> DueHour,
     sent |-> {}, succeeded |-> {}, expected |-> {},
     op |-> "constructor", resent |-> {}, finished |-> NoTick]

Begin(sch, op) == [sch EXCEPT !.op = op, !.resent = {}, !.finished = NoTick]

Ids(jobs) == { jobs[i].id : i \in 1..Len(jobs) }

\* the test of tick's loop body
IsDue(job, today, utcHour) == job.lastRun # today /\ utcHour = job.hourUTC

\* the first job at or after position from that the loop sends for, 0 if
\* the loop runs to its end
NextDue(jobs, from, today, utcHour) ==
    LET due == { i \in from..Len(jobs) : IsDue(jobs[i], today, utcHour) } IN
    IF due = {} THEN 0 ELSE CHOOSE i \in due : \A j \in due : i <= j

RemoveAt(seq, k) == [i \in 1..(Len(seq) - 1) |-> IF i < k THEN seq[i] ELSE seq[i + 1]]

\* tick's loop from position from in the tick t: it stops at the next due
\* job and awaits sendEmail for it, or runs to its end and saves its list.
\* k is the position of t among the ticks in flight, 0 for a tick that
\* begins.
RunLoop(sch, t, k, from) ==
    LET j == NextDue(t.jobs, from, t.today, t.utcHour)
        send == <<t.jobs[j].id, t.today>>
        waiting == [t EXCEPT !.i = j]
    IN IF j = 0
       THEN [sch EXCEPT !.stored = t.jobs,
                        !.ticks = IF k = 0 THEN @ ELSE RemoveAt(@, k),
                        !.finished = [t EXCEPT !.i = Len(t.jobs) + 1]]
       ELSE [sch EXCEPT !.ticks = IF k = 0 THEN Append(@, waiting)
                                  ELSE [@ EXCEPT ![k] = waiting],
                        !.resent = IF send \in sch.sent THEN {send} ELSE {},
                        !.sent = @ \cup {send}]

\* tick() down to its first await or to its end
tick(sch) ==
    RunLoop([sch EXCEPT !.started = @ + 1],
            Tick(sch.stored, 0, sch.day, sch.hour, {}), 0, 1)

Others == <<dashboard, location, baseURL, mockMode, token, localStorage,
            requestCounter, calls, last, probe>>

\* addJob({..., hourUTC}): the job is appended to the stored list
AddJob(id, hourUTC) ==
    /\ id = scheduler.added + 1
    /\ scheduler' = [Begin(scheduler, "addJob") EXCEPT
                       !.added = id,
                       !.stored = Append(@, Job(id, hourUTC, 0)),
                       !.expected = @ \cup {id}]
    /\ UNCHANGED Others

\* removeJob(jobId)
RemoveJob(id) ==
    /\ id \in Ids(scheduler.stored)
    /\ scheduler' = [Begin(scheduler, "removeJob") EXCEPT
                       !.stored = SelectSeq(@, LAMBDA j : j.id # id),
                       !.expected = @ \ {id}]
    /\ UNCHANGED Others

\* start(): the interval timer is armed and a first tick runs
Start ==
    /\ ~scheduler.timer
    /\ scheduler.started < MaxTicks
    /\ scheduler' = tick([Begin(scheduler, "start") EXCEPT !.timer = TRUE])
    /\ UNCHANGED Others

\* stop()
Stop ==
    /\ scheduler.timer
    /\ scheduler' = [Begin(scheduler, "stop") EXCEPT !.timer = FALSE]
    /\ UNCHANGED Others

\* the one-minute interval fires: () => this.tick()
TimerTick ==
    /\ scheduler.timer
    /\ scheduler.started < MaxTicks
    /\ scheduler' = tick(Begin(scheduler, "tick"))
    /\ UNCHANGED Others

\* sendEmail resolves for the tick at position k: job.lastRun = today, and
\* the loop goes on
SendResolves(k) ==
    /\ k \in 1..Len(scheduler.ticks)
    /\ LET t == scheduler.ticks[k]
           ran == [t EXCEPT !.jobs[t.i].lastRun = t.today]
       IN scheduler' =
            RunLoop([Begin(scheduler, "sendResolves") EXCEPT
                       !.succeeded = @ \cup {<<t.jobs[t.i].id, t.today>>}],
                    ran, k, t.i + 1)
    /\ UNCHANGED Others

\* sendEmail rejects and the tick marks the job as run all the same
SendRejectsMarksRun(k) ==
    /\ k \in 1..Len(scheduler.ticks)
    /\ LET t == scheduler.ticks[k]
           ran == [t EXCEPT !.jobs[t.i].lastRun = t.today,
                            !.failed = @ \cup {t.jobs[t.i].id}]
       IN scheduler' =
            RunLoop(Begin(scheduler, "sendRejects"), ran, k, t.i + 1)
    /\ UNCHANGED Others

\* sendEmail rejects for the tick at position k: the catch logs the error
\* and the loop goes on
SendRejects(k) ==
    /\ k \in 1..Len(scheduler.ticks)
    /\ LET t == scheduler.ticks[k]
           skipped == [t EXCEPT !.failed = @ \cup {t.jobs[t.i].id}]
       IN scheduler' =
            RunLoop(Begin(scheduler, "sendRejects"), skipped, k, t.i + 1)
    /\ UNCHANGED Others

\* time passes: the hour after DueHour, then DueHour of the next day
ClockAdvances ==
    /\ IF scheduler.hour = DueHour
       THEN scheduler' = [Begin(scheduler, "clock") EXCEPT !.hour = DueHour + 1]
       ELSE /\ scheduler.day < MaxDays
            /\ scheduler' = [Begin(scheduler, "clock") EXCEPT
                               !.hour = DueHour, !.day = @ + 1]
    /\ UNCHANGED Others

(* ------------------------------ initial ------------------------------ *)

\* new OpportunitiesController(apiService): the controller with its model.
\* init tells where the init() call stands, loads holds the
\* fetchOpportunities calls in flight, fetches counts the fetchData calls
\* awaiting the API, summary is <<>> for null; destroyed, started, called
\* and op tell of the run: whether destroy() was called, the loads started,
\* the fetchData calls made and the last operation.
NoDashboard ==
    [isInitialized |-> FALSE, refreshTimer |-> FALSE, init |-> "idle",
     destroyed |-> FALSE, loads |-> <<>>, started |-> 0,
     isLoading |-> FALSE, fetches |-> 0, called |-> 0, data |-> "null",
     opportunities |-> <<>>, summary |-> <<>>, op |-> "constructor"]

\* new ApiService(baseURL): the token is read from storage, the mode is
\* resolved once by shouldUseMockMode
Init ==
    /\ scheduler = NoScheduler
    /\ dashboard = NoDashboard
    /\ location = Location(Null, "https:")
    /\ baseURL = ConfigBaseURL
    /\ localStorage \in [crm_auth_token : {Null} \cup Tokens,
                          crm_mock_mode : {Null, "true"},
                          crm_user_preferences : {Null}]
    /\ token = getItem(localStorage, "crm_auth_token")
    /\ mockMode = shouldUseMockMode(baseURL, location, localStorage)
    /\ requestCounter = 0
    /\ calls = [c \in Calls |-> IdleCall]
    /\ last = Step("constructor", Undefined, 0, <<>>, IdleCall)
    /\ probe = [retryCount |-> 0, delay |-> 0]

\* the store as a step finds it, no event dispatched yet
Here == Store(token, localStorage, <<>>)

\* a step leaves call c as r.call and the store as r.store
Settled(call) == call.pc \in {"resolved", "rejected"}

Commit(c, r, op, status) ==
    /\ calls' = [calls EXCEPT ![c] = IF Settled(r.call) THEN DoneCall ELSE r.call]
    /\ token' = r.store.token
    /\ localStorage' = r.store.localStorage
    /\ last' = Step(op, Undefined, status, r.store.events,
                    IF Settled(r.call) THEN r.call ELSE IdleCall)

\* `req_${Date.now()}_${++this.requestCounter}`: the counter alone tells
\* the ids of one client apart
generateRequestId == requestCounter + 1

\* the headers with Authorization written whether or not a token is held
buildHeadersAlwaysBearer(requestId) ==
    Headers(token, "company_a", requestId)

\* the headers of an attempt: Authorization if a token is held, the tenant
\* and the correlation id
buildHeaders(requestId) ==
    Headers(IF Truthy(token) THEN token ELSE Undefined, "company_a", requestId)

\* request() down to its await of fetch: a correlation id is generated, the
\* headers are built and the live call is issued.  n bounds the attempts a
\* run makes.
request(c, call, op, n) ==
    /\ requestCounter < n
    /\ requestCounter' = generateRequestId
    /\ calls' = [calls EXCEPT ![c] =
                   [call EXCEPT !.pc = "fetch", !.endpoint = "none",
                                !.requestId = generateRequestId,
                                !.attempts = @ + 1, !.error = NoError,
                                !.status = 0,
                                !.ids = Append(@, generateRequestId),
                                !.open = @ \cup {generateRequestId},
                                !.timers = @ \cup {generateRequestId}]]
    /\ last' = [Step(op, Undefined, 0, <<>>, IdleCall)
                   EXCEPT !.headers = buildHeaders(generateRequestId)]
    /\ UNCHANGED <<scheduler, dashboard, location, baseURL, mockMode, token, localStorage, probe>>

\* a wrapper hands the call to a mock route, which first awaits its latency
mock(c, call, route, op) ==
    /\ calls' = [calls EXCEPT ![c] = [call EXCEPT !.pc = route]]
    /\ last' = Step(op, Undefined, 0, <<>>, IdleCall)
    /\ UNCHANGED <<scheduler, dashboard, location, baseURL, mockMode, token, localStorage, requestCounter, probe>>

NewCall(caller, endpoint) ==
    [IdleCall EXCEPT !.caller = caller, !.endpoint = endpoint]

(* ------------------------- public operations -------------------------- *)

SetToken(t) ==
    LET st == setToken(Here, t) IN
    /\ token' = st.token
    /\ localStorage' = st.localStorage
    /\ last' = Step("setToken", t, 0, st.events, IdleCall)
    /\ UNCHANGED <<scheduler, dashboard, location, baseURL, mockMode, requestCounter, calls, probe>>

ClearToken ==
    LET st == clearToken(Here) IN
    /\ token' = st.token
    /\ localStorage' = st.localStorage
    /\ last' = Step("clearToken", Undefined, 0, st.events, IdleCall)
    /\ UNCHANGED <<scheduler, dashboard, location, baseURL, mockMode, requestCounter, calls, probe>>

Request(c, endpoint, n) ==
    /\ calls[c].pc = "idle"
    /\ request(c, NewCall("none", endpoint), "request", n)

Get(c, endpoint, n) ==
    /\ calls[c].pc = "idle"
    /\ IF mockMode
       THEN mock(c, NewCall("none", endpoint), "mockGet", "get")
       ELSE request(c, NewCall("none", endpoint), "get", n)

\* post() as called by a client (caller none) or by login, logout, refresh
post(c, caller, endpoint, op, n) ==
    IF mockMode
    THEN mock(c, NewCall(caller, endpoint), "mockPost", op)
    ELSE request(c, NewCall(caller, endpoint), op, n)

Post(c, endpoint, n) ==
    /\ calls[c].pc = "idle"
    /\ post(c, "none", endpoint, "post", n)

\* put(); in mock mode the preferences are saved locally:
\* localStorage.setItem('crm_user_preferences', JSON.stringify(data))
Put(c, endpoint, n) ==
    /\ calls[c].pc = "idle"
    /\ IF mockMode /\ endpoint = "/user/preferences"
       THEN \E data \in PreferenceValues :
            /\ Commit(c, Fulfil(NewCall("none", endpoint),
                                [Result("preferences", Undefined)
                                    EXCEPT !.value = data],
                                [Here EXCEPT !.localStorage =
                                    setItem(@, "crm_user_preferences",
                                            JSONstringify(data))]),
                      "put", 0)
            /\ UNCHANGED <<scheduler, dashboard, location, baseURL, mockMode, requestCounter, probe>>
       ELSE request(c, NewCall("none", endpoint), "put", n)

Patch(c, endpoint, n) ==
    /\ calls[c].pc = "idle"
    /\ request(c, NewCall("none", endpoint), "patch", n)

Delete(c, endpoint, n) ==
    /\ calls[c].pc = "idle"
    /\ request(c, NewCall("none", endpoint), "delete", n)

Login(c, n) ==
    /\ calls[c].pc = "idle"
    /\ post(c, "login", "/auth/login", "login", n)

Logout(c, n) ==
    /\ calls[c].pc = "idle"
    /\ post(c, "logout", "/auth/logout", "logout", n)

RefreshToken(c, n) ==
    /\ calls[c].pc = "idle"
    /\ post(c, "refreshToken", "/auth/refresh", "refreshToken", n)

(* -------------------------- the live path ----------------------------- *)

\* fetch resolves with a 2xx response: clearTimeout(timeoutId), and
\* request() awaits parseResponse
FetchOk(c) ==
    /\ calls[c].pc = "fetch"
    /\ calls' = [calls EXCEPT ![c].pc = "parse",
                              ![c].timers = @ \ {calls[c].requestId}]
    /\ last' = Step("fetchOk", Undefined, 0, <<>>, IdleCall)
    /\ UNCHANGED <<scheduler, dashboard, location, baseURL, mockMode, token, localStorage, requestCounter, probe>>

\* fetch resolves with a non-2xx response: clearTimeout(timeoutId), and
\* handleHTTPError awaits the error body
FetchNotOk(c, status) ==
    /\ calls[c].pc = "fetch"
    /\ calls' = [calls EXCEPT ![c].pc = "errorBody", ![c].status = status,
                              ![c].timers = @ \ {calls[c].requestId}]
    /\ last' = Step("fetchNotOk", Undefined, 0, <<>>, IdleCall)
    /\ UNCHANGED <<scheduler, dashboard, location, baseURL, mockMode, token, localStorage, requestCounter, probe>>

\* fetch rejects without a response: control enters the catch block, which
\* does not call clearTimeout
FetchFails(c, error) ==
    /\ calls[c].pc = "fetch"
    /\ Commit(c, Catch(calls[c], error, Here), "fetchFails", 0)
    /\ UNCHANGED <<scheduler, dashboard, location, baseURL, mockMode, requestCounter, probe>>

\* the deadline timer fires while fetch is pending: abortController.abort()
Timeout(c) ==
    /\ calls[c].pc = "fetch"
    /\ Commit(c, Catch([calls[c] EXCEPT !.timers = @ \ {calls[c].requestId}],
                       AbortError, Here),
              "timeout", 0)
    /\ UNCHANGED <<scheduler, dashboard, location, baseURL, mockMode, requestCounter, probe>>

\* parseResponse decodes the body; tok is the token field of the payload
ParseResponse(c, tok) ==
    /\ calls[c].pc = "parse"
    /\ Commit(c, Fulfil(calls[c], Result("payload", tok), Here),
              "parseResponse", 0)
    /\ UNCHANGED <<scheduler, dashboard, location, baseURL, mockMode, requestCounter, probe>>

\* response.json() throws inside parseResponse
ParseFails(c, error) ==
    /\ calls[c].pc = "parse"
    /\ Commit(c, Catch(calls[c], error, Here), "parseFails", 0)
    /\ UNCHANGED <<scheduler, dashboard, location, baseURL, mockMode, requestCounter, probe>>

\* the error body has been read (or found undecodable): handleHTTPError
\* classifies the status and request() throws the result into its catch
HandleHTTPError(c, message) ==
    /\ calls[c].pc = "errorBody"
    /\ LET h == handleHTTPError(calls[c].status, message, calls[c].requestId, Here)
       IN Commit(c, Catch(calls[c], h.error, h.store), "handleHTTPError",
                 calls[c].status)
    /\ UNCHANGED <<scheduler, dashboard, location, baseURL, mockMode, requestCounter, probe>>

\* the backoff timer of retryRequest fires: request() runs again
RetryRequest(c, n) ==
    /\ calls[c].pc = "backoff"
    /\ request(c, calls[c], "retryRequest", n)

(* -------------------------- the mock router --------------------------- *)

\* { theme: 'light', pageSize: 25 }
DefaultPreferences == Object("light", "25")

\* mockGet's route /user/preferences:
\* prefs ? JSON.parse(prefs) : { theme: 'light', pageSize: 25 }
mockGetPreferences(ls) ==
    LET prefs == getItem(ls, "crm_user_preferences") IN
    IF Truthy(prefs) THEN JSONparse(prefs)
    ELSE [threw |-> FALSE, value |-> DefaultPreferences]

\* JSON.parse's SyntaxError: "undefined" is not valid JSON
StoredTextError == Err("SyntaxError", {"JSON"}, Undefined, 0, 0, "decode", <<>>)

\* mockGet after its 200 ms latency
MockGet(c) ==
    /\ calls[c].pc = "mockGet"
    /\ LET path == calls[c].endpoint
           read == mockGetPreferences(localStorage) IN
       IF path = "/opportunities"
       THEN /\ calls' = [calls EXCEPT ![c].pc = "getMockOpportunities"]
            /\ last' = Step("mockGet", Undefined, 0, <<>>, IdleCall)
            /\ UNCHANGED <<token, localStorage>>
       ELSE IF path = "/user/preferences"
       THEN IF read.threw
            THEN Commit(c, Reject(calls[c], StoredTextError, Here), "mockGet", 0)
            ELSE Commit(c, Fulfil(calls[c],
                                  [Result("preferences", Undefined)
                                      EXCEPT !.value = read.value],
                                  Here),
                        "mockGet", 0)
       ELSE Commit(c, Fulfil(calls[c], Result("empty", Undefined), Here),
                   "mockGet", 0)
    /\ UNCHANGED <<scheduler, dashboard, location, baseURL, mockMode, requestCounter, probe>>

\* getMockOpportunities after its 1000 ms delay
GetMockOpportunities(c) ==
    /\ calls[c].pc = "getMockOpportunities"
    /\ Commit(c, Fulfil(calls[c], Result("opportunities", Undefined), Here),
              "getMockOpportunities", 0)
    /\ UNCHANGED <<scheduler, dashboard, location, baseURL, mockMode, requestCounter, probe>>

\* mockPost answering login and refresh with the token already held
mockPostHeldToken(endpoint, tok, st) ==
    CASE endpoint \in {"/auth/login", "/auth/refresh"} ->
           [result |-> Result("token", st.token), store |-> st]
      [] endpoint = "/auth/logout" ->
           [result |-> Result("success", Undefined), store |-> clearToken(st)]
      [] OTHER ->
           [result |-> Result("success", Undefined), store |-> st]

\* the routes of mockPost: the result and the store each leaves
mockPost(endpoint, tok, st) ==
    CASE endpoint \in {"/auth/login", "/auth/refresh"} ->
           [result |-> Result("token", tok), store |-> setToken(st, tok)]
      [] endpoint = "/auth/logout" ->
           [result |-> Result("success", Undefined), store |-> clearToken(st)]
      [] OTHER ->
           [result |-> Result("success", Undefined), store |-> st]

\* mockPost after its 200 ms latency; tok is `mock_${Date.now()}`
MockPost(c, tok) ==
    /\ calls[c].pc = "mockPost"
    /\ LET m == mockPost(calls[c].endpoint, tok, Here)
       IN Commit(c, Fulfil(calls[c], m.result, m.store), "mockPost", 0)
    /\ UNCHANGED <<scheduler, dashboard, location, baseURL, mockMode, requestCounter, probe>>

\* a quotient n / d that need not be whole
Fraction(n, d) == [n |-> n, d |-> d]

\* the fixture getMockOpportunities returns: the amounts and statuses of its
\* opportunities and its summary
getMockOpportunities ==
    [opportunities |->
        << [opportunity_id |-> "OP 662800", age |-> "1154.2",
            status |-> "progress", amount |-> 65000],
           [opportunity_id |-> "OP 849600", age |-> "1154.2",
            status |-> "new", amount |-> 50000],
           [opportunity_id |-> "OP 491810", age |-> "20.5",
            status |-> "closed_won", amount |-> 180000] >>,
     summary |->
        [totalPipelineValue |-> 295000, activeOpportunities |-> 3,
         averageDealSize |-> Fraction(98333, 1), averageDealAge |-> 776,
         winRate |-> 33, totalOpportunities |-> 3]]

(* --------------------------- the dashboard ---------------------------- *)

\* parseFloat of the age texts, in tenths
parseFloat(text) ==
    CASE text = "1154.2" -> 11542
      [] text = "20.5" -> 205
      [] OTHER -> 0

\* Math.round(n / d) for n >= 0 and d > 0
MathRound(n, d) == (2 * n + d) \div (2 * d)

\* parseAmount of an amount that is a number
parseAmount(amount) == amount

\* the reduce over the amounts
RECURSIVE totalValue(_)
totalValue(opportunities) ==
    IF opportunities = <<>> THEN 0
    ELSE parseAmount(Head(opportunities).amount) + totalValue(Tail(opportunities))

\* the reduce over the ages, in tenths
RECURSIVE totalAge(_)
totalAge(opportunities) ==
    IF opportunities = <<>> THEN 0
    ELSE parseFloat(Head(opportunities).age) + totalAge(Tail(opportunities))

Closed == {"closed_lost", "closed_won"}

getEmptySummary ==
    [totalPipelineValue |-> 0, activeOpportunities |-> 0,
     averageDealSize |-> Fraction(0, 1), averageDealAge |-> 0,
     winRate |-> 0, totalOpportunities |-> 0]

calculateWinRate(opportunities) ==
    LET closedWon == Len(SelectSeq(opportunities, LAMBDA o : o.status = "closed_won"))
        totalClosed == Len(SelectSeq(opportunities, LAMBDA o : o.status \in Closed))
    IN IF totalClosed > 0 THEN MathRound(closedWon * 100, totalClosed) ELSE 0

calculateSummary(opportunities) ==
    IF Len(opportunities) = 0 THEN getEmptySummary
    ELSE LET activeOpps == SelectSeq(opportunities, LAMBDA o : o.status \notin Closed)
         IN [totalPipelineValue |-> totalValue(opportunities),
             activeOpportunities |-> Len(activeOpps),
             averageDealSize |-> Fraction(totalValue(opportunities),
                                          Len(opportunities)),
             averageDealAge |-> MathRound(totalAge(opportunities),
                                          10 * Len(opportunities)),
             winRate |-> calculateWinRate(opportunities),
             totalOpportunities |-> Len(opportunities)]

\* what get('/opportunities') resolves with: the fixture, as in mock mode,
\* or an object without a list
Payloads == {getMockOpportunities.opportunities, <<>>}

Rest == <<scheduler, location, baseURL, mockMode, token, localStorage,
          requestCounter, calls, last, probe>>

\* fetchOpportunities() down to its await of get('/opportunities')
StartLoad(d, by) ==
    [d EXCEPT !.loads = Append(@, [by |-> by, pc |-> "get"]),
              !.started = @ + 1]

\* fetchOpportunities() has returned to the call that awaited it: init()
\* goes on after loadData(), the other callers have nothing left to do
FinishLoad(d, k) ==
    LET done == [d EXCEPT !.loads = RemoveAt(@, k), !.data = "opportunities"]
    IN IF d.loads[k].by = "init"
       THEN [done EXCEPT !.isInitialized = TRUE, !.refreshTimer = TRUE,
                         !.init = "done"]
       ELSE done

\* init(): handlers are set up and loadData() is awaited
ControllerInit ==
    /\ ~dashboard.isInitialized
    /\ dashboard.init = "idle"
    /\ dashboard.started < MaxLoads
    /\ dashboard' = [StartLoad(dashboard, "init") EXCEPT
                       !.init = "awaiting", !.op = "init"]
    /\ UNCHANGED Rest

\* get('/opportunities') resolves for the load at position k
GetResolves(k, payload) ==
    /\ k \in 1..Len(dashboard.loads)
    /\ dashboard.loads[k].pc = "get"
    /\ dashboard' = [FinishLoad(dashboard, k) EXCEPT
                       !.opportunities = payload,
                       !.summary = <<calculateSummary(payload)>>,
                       !.op = "get"]
    /\ UNCHANGED Rest

\* get('/opportunities') rejects: getMockOpportunities() is awaited
GetRejects(k) ==
    /\ k \in 1..Len(dashboard.loads)
    /\ dashboard.loads[k].pc = "get"
    /\ dashboard' = [dashboard EXCEPT !.loads[k].pc = "fallback",
                                      !.op = "getRejects"]
    /\ UNCHANGED Rest

\* getMockOpportunities() resolves in the catch of fetchOpportunities
FallbackResolves(k) ==
    /\ k \in 1..Len(dashboard.loads)
    /\ dashboard.loads[k].pc = "fallback"
    /\ dashboard' = [FinishLoad(dashboard, k) EXCEPT
                       !.opportunities = getMockOpportunities.opportunities,
                       !.summary = <<getMockOpportunities.summary>>,
                       !.op = "fallback"]
    /\ UNCHANGED Rest

\* the refresh interval fires: refreshData() unless the model is loading
RefreshTick ==
    /\ dashboard.refreshTimer
    /\ dashboard.started < MaxLoads
    /\ dashboard' = IF dashboard.isLoading
                    THEN [dashboard EXCEPT !.op = "refreshSkipped"]
                    ELSE [StartLoad(dashboard, "refresh") EXCEPT !.op = "refresh"]
    /\ UNCHANGED Rest

\* view.onFiltersChange: handleFiltersChange awaits model.updateFilters
FiltersChange ==
    /\ dashboard.init # "idle"
    /\ ~dashboard.destroyed
    /\ dashboard.started < MaxLoads
    /\ dashboard' = [StartLoad(dashboard, "filters") EXCEPT !.op = "filters"]
    /\ UNCHANGED Rest

\* destroy(), as loadDashboard calls it on the controller it replaces
Destroy ==
    /\ dashboard.init # "idle"
    /\ ~dashboard.destroyed
    /\ dashboard' = [dashboard EXCEPT !.refreshTimer = FALSE,
                                      !.isInitialized = FALSE,
                                      !.destroyed = TRUE, !.op = "destroy"]
    /\ UNCHANGED Rest

\* model.fetchData(endpoint): returns at once while isLoading, else sets
\* it and awaits the API
FetchData ==
    /\ dashboard.called < MaxFetches
    /\ dashboard' = IF dashboard.isLoading
                    THEN [dashboard EXCEPT !.called = @ + 1,
                                           !.op = "fetchDataSkipped"]
                    ELSE [dashboard EXCEPT !.called = @ + 1,
                                           !.isLoading = TRUE,
                                           !.fetches = @ + 1,
                                           !.op = "fetchData"]
    /\ UNCHANGED Rest

\* the API call of a fetchData resolves
FetchDataResolves ==
    /\ dashboard.fetches > 0
    /\ dashboard' = [dashboard EXCEPT !.data = "fetched", !.isLoading = FALSE,
                                      !.fetches = @ - 1,
                                      !.op = "fetchDataResolves"]
    /\ UNCHANGED Rest

\* the API call of a fetchData rejects: the error is thrown on
FetchDataRejects ==
    /\ dashboard.fetches > 0
    /\ dashboard' = [dashboard EXCEPT !.isLoading = FALSE, !.fetches = @ - 1,
                                      !.op = "fetchDataRejects"]
    /\ UNCHANGED Rest

\* model.destroy()
ModelDestroy ==
    /\ dashboard' = [dashboard EXCEPT !.data = "null", !.isLoading = FALSE,
                                      !.op = "modelDestroy"]
    /\ UNCHANGED Rest

(* --------------------------- the services ----------------------------- *)

\* EmailService.sendDashboardReport: apiService.post('/email/send', ...)
\* inside try/catch
SendDashboardReport(c, n) ==
    /\ calls[c].pc = "idle"
    /\ post(c, "sendDashboardReport", "/email/send", "sendDashboardReport", n)

\* PdfService.generateDashboardPDF: apiService.post('/pdf/generate', ...)
\* inside try/catch
GenerateDashboardPDF(c, n) ==
    /\ calls[c].pc = "idle"
    /\ post(c, "generateDashboardPDF", "/pdf/generate", "generateDashboardPDF", n)

(* ------------------------------ the page ------------------------------ *)

\* the page's query string or protocol changes while the client lives
Navigate(loc) ==
    /\ location' = loc
    /\ last' = Step("navigate", Undefined, 0, <<>>, IdleCall)
    /\ UNCHANGED <<scheduler, dashboard, baseURL, mockMode, token,
                   localStorage, requestCounter, calls, probe>>

\* the mock flag is written and the client resolves its mode again
SetMockFlagResolvesMode(v) ==
    /\ localStorage' = setItem(localStorage, "crm_mock_mode", v)
    /\ mockMode' = shouldUseMockMode(baseURL, location, localStorage')
    /\ last' = Step("setMockFlag", Undefined, 0, <<>>, IdleCall)
    /\ UNCHANGED <<scheduler, dashboard, location, baseURL, token,
                   requestCounter, calls, probe>>

\* localStorage.setItem('crm_mock_mode', v) while the client lives
SetMockFlag(v) ==
    /\ localStorage' = setItem(localStorage, "crm_mock_mode", v)
    /\ last' = Step("setMockFlag", Undefined, 0, <<>>, IdleCall)
    /\ UNCHANGED <<scheduler, dashboard, location, baseURL, mockMode, token, requestCounter, calls,
                   probe>>

\* this.baseURL is assigned after construction
SetBaseURL(url) ==
    /\ baseURL' = url
    /\ last' = Step("setBaseURL", Undefined, 0, <<>>, IdleCall)
    /\ UNCHANGED <<scheduler, dashboard, location, mockMode, token,
                   localStorage, requestCounter, calls, probe>>

\* the page is loaded again and constructs its client: new ApiService(url)
Construct(url) ==
    /\ baseURL' = url
    /\ token' = getItem(localStorage, "crm_auth_token")
    /\ requestCounter' = 0
    /\ mockMode' = shouldUseMockMode(url, location, localStorage)
    /\ calls' = [c \in Calls |-> IdleCall]
    /\ last' = Step("constructor", Undefined, 0, <<>>, IdleCall)
    /\ UNCHANGED <<scheduler, dashboard, location, localStorage, probe>>

(* --------------------------- specification ---------------------------- *)

\* the steps of the calls in cs, the environment drawing a response status
\* from ss, an error message from ms, a rejection of fetch from fs, a decode
\* failure from ds, a payload token from ts and a clock reading from ks;
\* callers name an endpoint of es, and at most n live attempts are made
Steps(cs, es, ss, ms, fs, ds, ts, ks, n) ==
    \/ \E t \in Tokens : SetToken(t)
    \/ ClearToken
    \/ \E c \in cs, e \in es :
         \/ Request(c, e, n) \/ Get(c, e, n) \/ Post(c, e, n)
         \/ Put(c, e, n) \/ Patch(c, e, n) \/ Delete(c, e, n)
    \/ \E c \in cs : Login(c, n) \/ Logout(c, n) \/ RefreshToken(c, n)
    \/ \E c \in cs : FetchOk(c) \/ Timeout(c) \/ RetryRequest(c, n)
    \/ \E c \in cs, s \in ss : FetchNotOk(c, s)
    \/ \E c \in cs, e \in fs : FetchFails(c, e)
    \/ \E c \in cs, t \in ts : ParseResponse(c, t)
    \/ \E c \in cs, e \in ds : ParseFails(c, e)
    \/ \E c \in cs, m \in ms : HandleHTTPError(c, m)
    \/ \E c \in cs : MockGet(c) \/ GetMockOpportunities(c)
    \/ \E c \in cs, t \in ks : MockPost(c, t)

\* Several calls interleave on one client.  Their inputs are one of each
\* source: an authentication failure, a retryable status, a rejection of
\* fetch, a decode failure, a payload with or without a token.
Next ==
    Steps(Calls, {"/opportunities", "/unmatched"}, {401, 500}, {{}},
          OtherErrors, {e \in DecodeErrors : e.message = {"JSON"}},
          {Undefined, "tokA"}, {"mock_1"}, MaxRequests)

Spec == Init /\ [][Next]_vars

\* One logical call on the client, with every input the environment has
\* and every attempt it can make.
NextCall ==
    Steps({1}, Endpoints, Statuses, HttpMessages, ConnectionErrors \cup OtherErrors,
          DecodeErrors, {Undefined} \cup Tokens, MockTokens, MaxRetries + 1)

SpecCall == Init /\ [][NextCall]_vars


\* retryRequest's first two statements, for a caller-supplied
\* options.retryCount
ComputeDelay ==
    /\ probe.delay = 0
    /\ LET retryCount == probe.retryCount + 1 IN
       probe' = [retryCount |-> retryCount, delay |-> delay(retryCount)]
    /\ UNCHANGED <<scheduler, dashboard, location, baseURL, mockMode, token, localStorage, requestCounter, calls, last>>

InitDelay ==
    /\ scheduler = NoScheduler
    /\ dashboard = NoDashboard
    /\ location = Location(Null, "https:")
    /\ baseURL = ConfigBaseURL
    /\ localStorage \in [crm_auth_token : {Null} \cup Tokens,
                          crm_mock_mode : {Null, "true"},
                          crm_user_preferences : {Null}]
    /\ token = getItem(localStorage, "crm_auth_token")
    /\ mockMode = shouldUseMockMode(baseURL, location, localStorage)
    /\ requestCounter = 0
    /\ calls = [c \in Calls |-> IdleCall]
    /\ last = Step("constructor", Undefined, 0, <<>>, IdleCall)
    /\ probe \in [retryCount : 0..MaxRetryArg, delay : {0}]

NextDelay == ComputeDelay

SpecDelay == InitDelay /\ [][NextDelay]_vars

\* The client's call from a service: the steps of one call, started by a
\* caller or by EmailService or PdfService.
NextServices ==
    \/ Steps({1}, {"/opportunities", "/unmatched"}, {401, 500}, {{}},
             OtherErrors, {e \in DecodeErrors : e.message = {"JSON"}},
             {Undefined, "tokA"}, {"mock_1"}, MaxRequests)
    \/ SendDashboardReport(1, MaxRequests)
    \/ GenerateDashboardPDF(1, MaxRequests)

SpecServices == Init /\ [][NextServices]_vars

\* One logical call whose timers fire: the deadline timer while fetch is
\* pending, the backoff timer of retryRequest and the latency timers of the
\* mock router.  Nothing makes a server finish a body it has begun.
FairCall ==
    /\ WF_vars(Timeout(1))
    /\ WF_vars(RetryRequest(1, MaxRetries + 1))
    /\ WF_vars(MockGet(1))
    /\ WF_vars(GetMockOpportunities(1))
    /\ WF_vars(\E t \in MockTokens : MockPost(1, t))

SpecCallFair == Init /\ [][NextCall]_vars /\ FairCall

\* Two calls retrying while they interleave: every failure is a retryable
\* status, a decode failure or a rejection of fetch.
NextRetry ==
    Steps({1, 2}, {"/opportunities"}, {500}, {{}}, OtherErrors,
          {e \in DecodeErrors : e.message = {"JSON"}}, {Undefined},
          {"mock_1"}, MaxAttempts)

SpecRetry == Init /\ [][NextRetry]_vars

\* The client across page loads: the query string, the protocol, the mock
\* flag and the base address change under it, and a page load constructs a
\* new client from what storage holds.
InitPage ==
    /\ scheduler = NoScheduler
    /\ dashboard = NoDashboard
    /\ location \in Locations
    /\ baseURL \in BaseURLs
    /\ localStorage \in [crm_auth_token : {Null} \cup Tokens,
                          crm_mock_mode : {Null, "true", "false"},
                          crm_user_preferences : {Null}]
    /\ token = getItem(localStorage, "crm_auth_token")
    /\ mockMode = shouldUseMockMode(baseURL, location, localStorage)
    /\ requestCounter = 0
    /\ calls = [c \in Calls |-> IdleCall]
    /\ last = Step("constructor", Undefined, 0, <<>>, IdleCall)
    /\ probe = [retryCount |-> 0, delay |-> 0]

NextPage ==
    \/ Steps({1}, {"/opportunities"}, {401, 500}, {{}}, OtherErrors,
             {e \in DecodeErrors : e.message = {"JSON"}}, {"tokA"},
             {"mock_1"}, MaxRequests)
    \/ \E loc \in Locations : Navigate(loc)
    \/ \E v \in {"true", "false"} : SetMockFlag(v)
    \/ \E url \in BaseURLs : SetBaseURL(url) \/ Construct(url)

SpecPage == InitPage /\ [][NextPage]_vars

\* The scheduler of the admin dashboard: jobs are added and removed, the
\* timer is started and stopped, ticks run and overlap, sends resolve and
\* reject, and the clock moves on.
InitScheduler ==
    /\ Init
    /\ localStorage = [k \in StorageKeys |-> Null]

NextScheduler ==
    \/ \E id \in JobIds : AddJob(id, DueHour)
    \/ \E id \in JobIds : RemoveJob(id)
    \/ Start
    \/ Stop
    \/ TimerTick
    \/ \E k \in 1..MaxTicks : SendResolves(k)
    \/ \E k \in 1..MaxTicks : SendRejects(k)
    \/ ClockAdvances

SpecScheduler == InitScheduler /\ [][NextScheduler]_vars

\* A dashboard: its controller is initialised and destroyed, its loads
\* settle either way, the refresh interval fires, filters change, and
\* fetchData and destroy are called on its model.
InitDashboard ==
    /\ Init
    /\ localStorage = [k \in StorageKeys |-> Null]

NextDashboard ==
    \/ ControllerInit
    \/ \E k \in 1..MaxLoads, payload \in Payloads : GetResolves(k, payload)
    \/ \E k \in 1..MaxLoads : GetRejects(k)
    \/ \E k \in 1..MaxLoads : FallbackResolves(k)
    \/ RefreshTick
    \/ FiltersChange
    \/ Destroy
    \/ FetchData
    \/ FetchDataResolves
    \/ FetchDataRejects
    \/ ModelDestroy

SpecDashboard == InitDashboard /\ [][NextDashboard]_vars

(* ------------------------------ claims -------------------------------- *)

\* the events of one type among those the last step dispatched
Dispatched(type) ==
    { i \in 1..Len(last.events) : last.events[i].type = type }

InFlight(c) == calls[c].pc \in {"fetch", "parse", "errorBody", "backoff"}

RetryableStatuses == {429, 500, 502, 503, 504}

\* C1: a call is rejected with an error of status 429, 500, 502, 503 or 504
\* only after exactly 3 retries, that is 4 attempts, and the error then has
\* the kind of that status; no call makes more than 3 retries.
C1_RetriedThreeTimes ==
    /\ \A c \in Calls : Len(calls[c].delays) <= 3 /\ calls[c].attempts <= 4
    /\ Len(last.settled.delays) <= 3 /\ last.settled.attempts <= 4
    /\ (last.settled.pc = "rejected"
        /\ last.settled.error.status \in RetryableStatuses)
       => /\ Len(last.settled.delays) = 3
          /\ last.settled.attempts = 4
          /\ last.settled.error.type =
               (CASE last.settled.error.status = 500 -> "SERVER_ERROR"
                  [] last.settled.error.status = 429 -> "RATE_LIMIT"
                  [] OTHER -> "NETWORK_ERROR")

C1_Witness ==
    /\ last.settled.pc = "rejected"
    /\ last.settled.error.status = 500
    /\ last.settled.error.type = "SERVER_ERROR"
    /\ last.settled.attempts = 4
    /\ Len(last.settled.delays) = 3

\* C2: an attempt aborted by its deadline is retried like any retryable
\* failure: no call is rejected with TIMEOUT before it has made 3 retries.
C2_TimeoutIsRetried ==
    ~ /\ last.settled.pc = "rejected"
      /\ last.settled.error.type = "TIMEOUT"
      /\ Len(last.settled.delays) < 3

\* the kind a failure is reported under
KindOf(error) == normalizeError(error, 0).type

\* C3: a failure of a kind outside NETWORK_ERROR, TIMEOUT, SERVER_ERROR and
\* RATE_LIMIT is never retried: a call waiting for a backoff timer got there
\* by a failure of one of these four kinds.
C3_OtherKindsNeverRetried ==
    \A c \in Calls :
        calls[c].pc = "backoff" => KindOf(calls[c].error) \in retryableErrors

\* C4: the delay before retry n is min(1000 * 2^n, 30000): 2000, 4000 and
\* 8000 ms for n = 1, 2, 3, and at most 30000 ms for every n.
C4_BackoffDelay ==
    probe.delay # 0 =>
        /\ probe.retryCount = 1 => probe.delay = 2000
        /\ probe.retryCount = 2 => probe.delay = 4000
        /\ probe.retryCount = 3 => probe.delay = 8000
        /\ probe.delay <= 30000
        /\ probe.retryCount <= 4 => probe.delay = 1000 * 2^probe.retryCount
        /\ probe.retryCount >= 5 => probe.delay = 30000

C4_Witness == probe.retryCount = 3 /\ probe.delay = 8000

\* C5: when an attempt's status 401 has been classified the token is absent
\* in memory and in storage and an auth-required event has been dispatched,
\* whatever the other calls are doing.
C5_AuthErrorClearsToken ==
    last.status = 401 =>
        /\ token = Null
        /\ getItem(localStorage, "crm_auth_token") = Null
        /\ Dispatched("auth-required") # {}

C5_Witness ==
    /\ last.status = 401
    /\ token = Null
    /\ Dispatched("auth-required") # {}
    /\ \E c \in Calls : InFlight(c)

C7_ClassificationMapping ==
    last.settled.pc = "rejected" =>
        LET e == last.settled.error IN
        IF e.status # 0
        THEN e.type = (CASE e.status = 401 -> "AUTH_ERROR"
                         [] e.status = 403 -> "FORBIDDEN"
                         [] e.status = 404 -> "NOT_FOUND"
                         [] e.status = 429 -> "RATE_LIMIT"
                         [] e.status = 500 -> "SERVER_ERROR"
                         [] e.status \in {502, 503, 504} -> "NETWORK_ERROR"
                         [] OTHER -> "HTTP_ERROR")
        ELSE Len(e.originalError) = 1 =>
             e.type = (CASE e.originalError[1].cause = "deadline" -> "TIMEOUT"
                         [] e.originalError[1].cause = "connection" -> "NETWORK_ERROR"
                         [] e.originalError[1].cause = "decode" -> "PARSE_ERROR"
                         [] OTHER -> "UNKNOWN_ERROR")

\* C8: a client in mock mode never issues a live call, and none of its calls
\* is rejected.
C8_MockNeverLive ==
    mockMode =>
        /\ requestCounter = 0
        /\ \A c \in Calls : ~InFlight(c)
        /\ last.settled.pc # "rejected"

\* C9: after setToken(t) the client's token is t, and after clearToken() the
\* client holds no token and isAuthenticated() is false, whatever operations
\* came before.
C9_TokenRoundTrip ==
    /\ last.op = "setToken" => token = last.arg
    /\ last.op = "clearToken" => token = Null /\ ~isAuthenticated

C9_Witness ==
    /\ last.op = "setToken"
    /\ token = "tokB"
    /\ isAuthenticated
    /\ \E c \in Calls : calls[c].pc = "done"

\* C10: setToken, clearToken, and a login, logout or refreshToken that
\* changes the token dispatch exactly one auth-token-changed event, with
\* hasToken true on a set and false on a clear, in either mode.  (A step that
\* classified a 401 has a transition of its own and is left out.)
C10_OneNotificationPerTransition ==
    LET changed == Dispatched("auth-token-changed") IN
    /\ last.op = "setToken" =>
         Cardinality(changed) = 1 /\ \A i \in changed : last.events[i].hasToken
    /\ last.op = "clearToken" =>
         Cardinality(changed) = 1 /\ \A i \in changed : ~last.events[i].hasToken
    /\ (last.settled.pc = "resolved" /\ last.status # 401) =>
         /\ (last.settled.caller \in {"login", "refreshToken"}
             /\ Truthy(last.settled.result.token)) =>
               Cardinality(changed) = 1 /\ \A i \in changed : last.events[i].hasToken
         /\ last.settled.caller = "logout" =>
               Cardinality(changed) = 1 /\ \A i \in changed : ~last.events[i].hasToken

\* C11: in mock mode a login or a refresh resolves with a generated token,
\* and when it resolves the client holds that token in memory and in storage.
C11_MockLoginStoresToken ==
    (last.op = "mockPost"
     /\ last.settled.endpoint \in {"/auth/login", "/auth/refresh"}) =>
        /\ last.settled.pc = "resolved"
        /\ last.settled.result.token \in MockTokens
        /\ token = last.settled.result.token
        /\ getItem(localStorage, "crm_auth_token") = last.settled.result.token

C11_Witness ==
    /\ last.op = "mockPost"
    /\ last.settled.caller = "refreshToken"
    /\ last.settled.result.token = "mock_2"
    /\ token = "mock_2"

RECURSIVE SumAmounts(_)
SumAmounts(opps) ==
    IF opps = <<>> THEN 0 ELSE Head(opps).amount + SumAmounts(Tail(opps))

\* C12: the summary the mock opportunities listing returns is computed from
\* the list it returns: the pipeline total is the sum of the amounts, the
\* count is the number of opportunities and the average is total / count.
C12_SummaryFromFixture ==
    (last.op = "getMockOpportunities" /\ last.settled.pc = "resolved"
     /\ last.settled.result.data = "opportunities") =>
        LET opps == getMockOpportunities.opportunities
            summary == getMockOpportunities.summary
        IN /\ summary.totalPipelineValue = SumAmounts(opps)
           /\ summary.totalOpportunities = Len(opps)
           /\ summary.averageDealSize.n * Len(opps)
                 = SumAmounts(opps) * summary.averageDealSize.d

\* C13: in mock mode a call on a path no mock route matches resolves with an
\* empty object, whatever its method: no wrapper hands it to fetch and it is
\* never rejected.
C13_UnmatchedReturnsEmpty ==
    mockMode =>
        /\ last.op \in {"get", "post", "put", "patch", "delete"} =>
             \A c \in Calls : calls[c].pc # "fetch"
        /\ last.settled.endpoint = "/unmatched" =>
             /\ last.settled.pc = "resolved"
             /\ last.settled.result.data = "empty"

\* C14: the mode of a client is the one its constructor resolved: no step of
\* the client and no change of the query string, the protocol, the mock flag
\* or the base address changes it.
C14_ModeFixedAtConstruction ==
    [][last'.op # "constructor" => mockMode' = mockMode]_vars

C14_Witness ==
    /\ mockMode # shouldUseMockMode(baseURL, location, localStorage)
    /\ last.op \in {"get", "post", "mockGet", "mockPost", "fetchOk"}

\* C15: a call made through the Email or PDF service is rejected with the
\* client's error record: it has one of the ten kinds and the correlation id
\* of an attempt of the call.
C15_ServiceKeepsErrorRecord ==
    (last.settled.pc = "rejected" /\ last.settled.caller \in Collaborators) =>
        /\ last.settled.error.type \in ErrorKinds
        /\ \E i \in 1..Len(last.settled.ids) :
             last.settled.error.requestId = last.settled.ids[i]

\* C16: with every timer firing, a live call that has started eventually
\* settles, also when the server sends headers and never ends the body.
C16_EveryCallSettles ==
    (calls[1].pc \in {"fetch", "parse", "errorBody", "backoff"})
        ~> (calls[1].pc = "done")

\* C17: at most one attempt of a call is open at any time; an attempt waiting
\* for its response or its body is the only open one and every attempt before
\* it was followed by its backoff delay; a call waiting for its backoff timer
\* has no open attempt and its last failure has been found retryable.
C17_AttemptsInOrder ==
    \A c \in Calls :
        /\ Cardinality(calls[c].open) <= 1
        /\ calls[c].pc \in {"fetch", "parse", "errorBody"} =>
             /\ calls[c].open = {calls[c].requestId}
             /\ calls[c].attempts = Len(calls[c].delays) + 1
             /\ Len(calls[c].ids) = calls[c].attempts
        /\ calls[c].pc = "backoff" =>
             /\ calls[c].open = {}
             /\ calls[c].attempts = Len(calls[c].delays)
             /\ shouldRetry(calls[c].error)

C17_Witness ==
    /\ calls[1].pc = "fetch"
    /\ calls[1].attempts = 2
    /\ calls[1].delays = <<2000>>
    /\ calls[2].pc = "backoff"

\* C18: the correlation ids of the attempts made on a client are pairwise
\* distinct, and a rejected error record carries the id of the call's last
\* attempt, which is not the id of its first attempt once it was retried.
C18_FreshCorrelationIds ==
    /\ \A c \in Calls : \A i \in 1..Len(calls[c].ids) :
         /\ calls[c].ids[i] \in 1..requestCounter
         /\ \A d \in Calls : \A j \in 1..Len(calls[d].ids) :
              (c # d \/ i # j) => calls[c].ids[i] # calls[d].ids[j]
         /\ \A j \in 1..Len(last.settled.ids) :
              calls[c].ids[i] # last.settled.ids[j]
    /\ \A i, j \in 1..Len(last.settled.ids) :
         i # j => last.settled.ids[i] # last.settled.ids[j]
    /\ (last.settled.pc = "rejected" /\ Len(last.settled.ids) >= 1) =>
         /\ last.settled.error.requestId =
              last.settled.ids[Len(last.settled.ids)]
         /\ Len(last.settled.ids) > 1 =>
              last.settled.error.requestId # last.settled.ids[1]

C18_Witness ==
    /\ last.settled.pc = "rejected"
    /\ last.settled.ids = <<1, 3>>
    /\ last.settled.error.requestId = 3
    /\ calls[2].ids = <<2>>

\* C19: the attempt a step hands to fetch, first attempt or retry, carries
\* the tenant company_a, its own correlation id, and an Authorization header
\* exactly if the client holds a token in that step, with that token.
C19_AttemptHeaders ==
    /\ last.headers # NoHeaders =>
         /\ last.headers.XCompanyID = "company_a"
         /\ last.headers.XRequestID = requestCounter
         /\ \E c \in Calls : /\ calls[c].pc = "fetch"
                             /\ calls[c].requestId = last.headers.XRequestID
         /\ last.headers.Authorization =
              (IF token \in {Null, Undefined, ""} THEN Undefined ELSE token)
    /\ (last.op \in {"request", "get", "post", "put", "patch", "delete",
                     "login", "logout", "refreshToken", "retryRequest"}
        /\ \E c \in Calls : calls[c].pc = "fetch") =>
         last.headers # NoHeaders

C19_Witness ==
    /\ last.op = "retryRequest"
    /\ last.headers.XRequestID = 2
    /\ last.headers.Authorization = Undefined
    /\ token = Null
    /\ localStorage.crm_auth_token = Null

\* C20: after every step the token in memory is the entry stored under
\* crm_auth_token, and a client constructed next starts with the token the
\* client before it held.
C20_TokenPersisted ==
    [][/\ token' = getItem(localStorage', "crm_auth_token")
       /\ last'.op = "constructor" => token' = token]_vars

C20_Witness ==
    /\ last.op = "constructor"
    /\ token = "mock_1"
    /\ getItem(localStorage, "crm_auth_token") = "mock_1"

\* C22: a logout never rejects, and when it resolves the client holds no
\* token in memory or in storage, whether its request succeeded, failed at
\* once or failed after its last retry.
C22_LogoutAlwaysClears ==
    last.settled.caller = "logout" =>
        /\ last.settled.pc = "resolved"
        /\ token = Null
        /\ getItem(localStorage, "crm_auth_token") = Null
        /\ ~isAuthenticated

C22_Witness ==
    /\ last.settled.caller = "logout"
    /\ last.settled.pc = "resolved"
    /\ last.op = "handleHTTPError"
    /\ last.settled.attempts = 4
    /\ token = Null

\* C24: the deadline timer of an attempt that has ended is not pending: a
\* call has a pending timer only for the attempt it awaits fetch for, and a
\* settled call has none.
C24_NoTimerOutlivesAttempt ==
    /\ \A c \in Calls :
         calls[c].timers \subseteq
             (IF calls[c].pc = "fetch" THEN {calls[c].requestId} ELSE {})
    /\ last.settled.timers = {}

\* C23: in mock mode, once preferences p have been saved a read returns p,
\* a read with nothing saved returns the default preferences, and no read of
\* the preferences is rejected.
C23_PreferencesRoundTrip ==
    /\ (last.op = "put" /\ last.settled.endpoint = "/user/preferences") =>
         mockGetPreferences(localStorage) =
             [threw |-> FALSE, value |-> last.settled.result.value]
    /\ getItem(localStorage, "crm_user_preferences") = Null =>
         mockGetPreferences(localStorage) =
             [threw |-> FALSE, value |-> DefaultPreferences]
    /\ (last.op = "mockGet" /\ last.settled.endpoint = "/user/preferences") =>
         last.settled.pc = "resolved"

\* C25: the scheduler emails each job at most once per UTC day: no step
\* starts a send for a job and day for which a send had been started
\* before, also while an earlier tick is still awaiting sendEmail.
C25_OncePerDay == scheduler.resent = {}

\* C26: a job added or removed while a tick is in flight stays added or
\* removed: the stored job list holds exactly the jobs added and not
\* removed, also after a tick has written its list back.
C26_ConcurrentEditsKept == Ids(scheduler.stored) = scheduler.expected

\* the ticks in flight and the tick the last step ended
TicksSeen ==
    { scheduler.ticks[k] : k \in 1..Len(scheduler.ticks) } \cup {scheduler.finished}

\* C27: a tick whose sendEmail failed for a due job leaves that job's
\* lastRun as it was and goes on with the remaining jobs: it passes no due
\* job without a send, so the job is still due for a later tick of the
\* hour; a lastRun of some day is set only for a job whose send on that day
\* succeeded.
C27_FailedSendLeavesLastRun ==
    /\ \A t \in TicksSeen : \A n \in 1..Len(t.jobs) :
          /\ t.jobs[n].id \in t.failed => IsDue(t.jobs[n], t.today, t.utcHour)
          /\ (n < t.i /\ IsDue(t.jobs[n], t.today, t.utcHour)) =>
                t.jobs[n].id \in t.failed
          /\ t.jobs[n].lastRun # 0 =>
                <<t.jobs[n].id, t.jobs[n].lastRun>> \in scheduler.succeeded
    /\ \A n \in 1..Len(scheduler.stored) :
          scheduler.stored[n].lastRun # 0 =>
             <<scheduler.stored[n].id, scheduler.stored[n].lastRun>>
                \in scheduler.succeeded

\* a tick has ended whose send failed for the first job and succeeded for
\* the second: the stored list marks the second job only
C27_Witness ==
    /\ scheduler.finished.failed = {1}
    /\ Len(scheduler.stored) = 2
    /\ scheduler.stored[1] = Job(1, DueHour, 0)
    /\ scheduler.stored[2] = Job(2, DueHour, scheduler.finished.today)

\* C21: auto-refresh never overlaps requests: when the refresh interval
\* starts a load, no load started earlier (by init, a filter change or an
\* earlier refresh) is still in flight.
C21_RefreshNeverOverlaps ==
    dashboard.op = "refresh" => Len(dashboard.loads) = 1

\* C28: once destroy() was called the controller has no refresh timer and
\* is not initialized, and this stays so, also when init() was still
\* awaiting loadData().
C28_DestroyedStaysInactive ==
    dashboard.destroyed => ~dashboard.isInitialized /\ ~dashboard.refreshTimer

\* C29: at most one fetchData request of a model is in flight, and
\* isLoading is true exactly while one is, under any interleaving of
\* fetchData and destroy.
C29_OneFetchInFlight ==
    /\ dashboard.fetches <= 1
    /\ dashboard.isLoading <=> dashboard.fetches = 1

\* the five figures of a summary the dashboard shows
Figures(summary) ==
    <<summary.totalPipelineValue, summary.activeOpportunities,
      summary.totalOpportunities, summary.winRate, summary.averageDealAge>>

\* C30: whenever fetchOpportunities has yielded the built-in fixture, by a
\* successful get or by the failure fallback, the summary it yields has the
\* figures of the fixture's own summary.
C30_SameSummaryEitherWay ==
    (/\ dashboard.op \in {"get", "fallback"}
     /\ dashboard.opportunities = getMockOpportunities.opportunities) =>
        Figures(dashboard.summary[1]) = Figures(getMockOpportunities.summary)

====
